---- MODULE Spec2Model ----
(***************************************************************************)
(* CO2FreiMon firmware: the streamed bitmap decoder (bmpDraw.cpp), the    *)
(* text Label and the widgets built from it (Graphics.cpp), as state       *)
(* machines.                                                               *)
(*                                                                         *)
(* bmpReader::draw is modelled statement block by statement block: pc is   *)
(* the position in the function, the file is a function of its header      *)
(* fields (little-endian encoded, decoded again by read16/read32) and of a *)
(* byte pattern for everything behind the parsed header, the SD handle is  *)
(* position/open state, and the display is the transaction flag plus what  *)
(* was pushed.                                                             *)
(***************************************************************************)
EXTENDS Integers, Sequences, FiniteSets, TLC

VARIABLES
  pc,          \* position in bmpReader::draw
  x, y,        \* draw(): requested origin (int16_t)
  file,        \* the file on the SD card: header fields, size, data pattern
  openOk,      \* whether SD.open succeeds
  fOpen,       \* the File handle is open
  fpos,        \* File::position()
  bmpWidth, bmpHeight, bmpImageoffset, rowSize, flip, goodBmp,
  w, h, row, col, pos,
  sdbuffer,    \* pixel buffer, 3*BUFFPIXEL bytes, Uninit where never written
  buffidx,     \* current position in sdbuffer
  writing,     \* a display write transaction is open
  window,      \* last setAddrWindow, or NoWindow
  trace,       \* counters of the calls made on display and storage
  lastPush,    \* the last pushColor: output row, column, color, buffer index
  rowRead,     \* the output row being streamed and the end offset of the
               \* file bytes read for it so far (0: none); the file position
               \* it started at, whether it made a seek, and whether the
               \* buffer was refilled since
  lbl,         \* the Label object, or NoLabel before construction
  runs,        \* the print() calls of the last Label::print
  rect,        \* the last fillRect, or NoRect
  call,        \* the last call on the Label with its arguments, and the
               \* anchor, length and subscript it found
  wgt,         \* the widget (ValueBar, HeaderBar or CalibrationWarning) with
               \* its Labels, or NoWidget before construction
  ops,         \* the display operations of the last call on the widget
  wcall,       \* the last call on the widget with its arguments
  bg,          \* the color of the last background fill, or NoColor
  shown        \* per Label of the widget, the cells its last print painted

bmpVars == <<pc, x, y, file, openOk, fOpen, fpos, bmpWidth, bmpHeight,
             bmpImageoffset, rowSize, flip, goodBmp, w, h, row, col, pos,
             sdbuffer, buffidx, writing, window, trace, lastPush, rowRead>>
lblVars == <<lbl, runs, rect, call>>
wgtVars == <<wgt, ops, wcall, bg, shown>>
vars == <<bmpVars, lblVars, wgtVars>>

(***************************************************************************)
(* Program constants                                                       *)
(***************************************************************************)
BUFFPIXEL == 50
CHAR_W == 6
CHAR_H == 8
LEFT == 0
RIGHT == 1
TOP == 0
BOTTOM == 2

\* sizeof(sdbuffer)
BufSize == 3 * BUFFPIXEL

(***************************************************************************)
(* Bounds of the model                                                     *)
(***************************************************************************)
DispW == 101       \* _display->width()
DispH == 2         \* _display->height()
MaxSmallW == 3     \* widths 0..MaxSmallW, besides those around the buffer size
MaxH == 2          \* declared heights -MaxH..MaxH
StdOffset == 54    \* pixel-data offset of a file with a 40 byte DIB header
ClipX == 2         \* an origin inside the display from which wide images clip

Uninit == -1
NoWindow == [set |-> FALSE]
NoPush == [any |-> FALSE]
NoRead == [row |-> 0, last |-> 0, at |-> 0, sought |-> FALSE, fresh |-> FALSE]
NoLabel == [made |-> FALSE]
NoRect == [set |-> FALSE]
NoCall == [op |-> "none"]
NoWidget == [kind |-> "none"]
NoColor == -1

Min(a, b) == IF a < b THEN a ELSE b
Max(a, b) == IF a > b THEN a ELSE b

(***************************************************************************)
(* Fixed-width integers                                                    *)
(***************************************************************************)
ToInt16(v) == LET m == v % 65536 IN IF m >= 32768 THEN m - 65536 ELSE m
ToUint16(v) == v % 65536
ToUint8(v) == v % 256

\* byte k (0 = least significant) of a 32 bit two's complement value
LEByte(v, k) ==
  CASE k = 0 -> v % 256
    [] k = 1 -> (v \div 256) % 256
    [] k = 2 -> (v \div 65536) % 256
    [] OTHER -> (v \div 16777216) % 256

(***************************************************************************)
(* The file: 34 header bytes the parser reads, then the byte pattern.      *)
(***************************************************************************)
HdrLen == 2 + 4 + 4 + 4 + 4 + 4 + 4 + 2 + 2 + 4

PatternByte(seed, i) == (seed + 4 * i) % 256

FileByte(f, i) ==
  CASE i < 2  -> LEByte(f.sig, i)
    [] i >= 2 /\ i < 6 -> LEByte(f.size, i - 2)
    [] i >= 6 /\ i < 10 -> 0
    [] i >= 10 /\ i < 14 -> LEByte(f.off, i - 10)
    [] i >= 14 /\ i < 18 -> LEByte(40, i - 14)
    [] i >= 18 /\ i < 22 -> LEByte(f.width, i - 18)
    [] i >= 22 /\ i < 26 -> LEByte(f.height, i - 22)
    [] i >= 26 /\ i < 28 -> LEByte(f.planes, i - 26)
    [] i >= 28 /\ i < 30 -> LEByte(f.depth, i - 28)
    [] i >= 30 /\ i < 34 -> LEByte(f.comp, i - 30)
    [] OTHER -> PatternByte(f.seed, i)

\* File::read(): the byte at p, or -1 (0xFF once stored in a uint8_t) at the end
FRead(f, p) == IF p < f.size THEN FileByte(f, p) ELSE 255
\* File::position() after n single-byte reads from p
FAdvance(f, p, n) == Min(p + n, Max(p, f.size))

\* bmpReader::read16: LSB first
read16(f, p) == FRead(f, p) + 256 * FRead(f, p + 1)

\* bmpReader::read32: LSB first; the value as the 32 bit pattern read as int
read32(f, p) ==
  LET b3 == FRead(f, p + 3)
  IN FRead(f, p) + 256 * FRead(f, p + 1) + 65536 * FRead(f, p + 2)
     + 16777216 * (IF b3 >= 128 THEN b3 - 256 ELSE b3)

\* Adafruit_SPITFT::color565
color565(r, g, b) ==
  ((r \div 8) * 2048) + ((g \div 4) * 32) + (b \div 8)


(***************************************************************************)
(* Inputs of draw()                                                        *)
(***************************************************************************)
BM == 19778        \* 0x4D42, "BM" read LSB first

GarbageBytes == {0, 255}
Seeds == {0, 100}
Xs == {-1, 0, ClipX, DispW - 1, DispW}
Ys == {-1, 0, DispH - 1, DispH}
Widths == (0 .. MaxSmallW) \cup {BUFFPIXEL, BUFFPIXEL + 1, 2 * BUFFPIXEL - 1, 2 * BUFFPIXEL}
Heights == (-MaxH) .. MaxH
Offsets == {HdrLen, StdOffset}

Abs(v) == IF v < 0 THEN -v ELSE v

\* BMP rows are padded (if needed) to 4-byte boundary
\* rowSize = (bmpWidth * 3 + 3) & ~3
RowStride(bw) == ((bw * 3 + 3) \div 4) * 4

\* size of a file that holds every row its header declares
FullSize(off, bw, bh) == off + RowStride(bw) * Abs(bh)
\* a truncated file: the last stored row and one more byte are missing
ShortSize(off, bw, bh) == Max(HdrLen, FullSize(off, bw, bh) - RowStride(bw) - 1)

MkFile(sg, off, bw, bh, pl, dp, cm, sz, sd) ==
  [sig |-> sg, off |-> off, width |-> bw, height |-> bh, planes |-> pl,
   depth |-> dp, comp |-> cm, size |-> sz, seed |-> sd]

GoodFiles ==
  { MkFile(BM, off, bw, bh, 1, 24, 0,
           IF short THEN ShortSize(off, bw, bh) ELSE FullSize(off, bw, bh), sd) :
      off \in Offsets, bw \in Widths, bh \in Heights, sd \in Seeds,
      short \in BOOLEAN }

\* header fields off the allow-list: signature, planes, depth, compression,
\* several at once, and a 16 bit depth field whose low byte is 24
BadFiles ==
  { MkFile(hd[1], StdOffset, bw, bh, hd[2], hd[3], hd[4], FullSize(StdOffset, bw, bh), 0) :
      hd \in { <<BM + 1, 1, 24, 0>>, <<BM, 2, 24, 0>>, <<BM, 1, 8, 0>>,
               <<BM, 1, 24, 1>>, <<BM, 0, 32, 3>>, <<BM, 1, 256 + 24, 0>> },
      bw \in {1, MaxSmallW}, bh \in {-1, MaxH} }

Files == GoodFiles \cup BadFiles

NoFile == MkFile(0, 0, 0, 0, 0, 0, 0, 0, 0)

(***************************************************************************)
(* Display and storage primitives, as effects on the call counters         *)
(***************************************************************************)
NoTrace ==
  [opens |-> 0, closes |-> 0, starts |-> 0, ends |-> 0, windows |-> 0,
   pushes |-> 0, seeks |-> 0, refills |-> 0,
   clash |-> FALSE,     \* a storage read or seek while a transaction was open
   outside |-> FALSE,   \* setAddrWindow or pushColor with no transaction open
   nested |-> FALSE,    \* startWrite while a transaction was open
   idleEnd |-> FALSE]   \* endWrite with no transaction open

\* _display->startWrite()
startWrite(tr, wr) == [tr EXCEPT !.starts = @ + 1, !.nested = @ \/ wr]
\* _display->endWrite()
endWrite(tr, wr) == [tr EXCEPT !.ends = @ + 1, !.idleEnd = @ \/ ~wr]
\* a File read or seek: it uses the bus the display transaction holds
storageOp(tr, wr) == [tr EXCEPT !.clash = @ \/ wr]
\* _display->setAddrWindow / pushColor
displayOp(tr, wr) == [tr EXCEPT !.outside = @ \/ ~wr]


(***************************************************************************)
(* bmpReader::draw                                                         *)
(***************************************************************************)
\* draw() not yet called, its locals as declared; no Label constructed
Init ==
  /\ pc = "idle"
  /\ x = 0 /\ y = 0
  /\ file = NoFile
  /\ openOk = FALSE
  /\ fOpen = FALSE
  /\ fpos = 0
  /\ bmpWidth = 0 /\ bmpHeight = 0 /\ bmpImageoffset = 0 /\ rowSize = 0
  /\ flip = TRUE                           \* boolean flip = true
  /\ goodBmp = FALSE                       \* boolean goodBmp = false
  /\ w = 0 /\ h = 0 /\ row = 0 /\ col = 0
  /\ pos = 0                               \* uint32_t pos = 0
  /\ sdbuffer = [i \in 1 .. BufSize |-> Uninit]
  /\ buffidx = BufSize                     \* buffidx = sizeof(sdbuffer)
  /\ writing = FALSE
  /\ window = NoWindow
  /\ trace = NoTrace
  /\ lastPush = NoPush
  /\ rowRead = NoRead
  /\ lbl = NoLabel
  /\ runs = <<>>
  /\ rect = NoRect
  /\ call = NoCall
  /\ wgt = NoWidget
  /\ ops = <<>>
  /\ wcall = NoCall
  /\ bg = NoColor
  /\ shown = <<>>

\* draw(filename, x, y) is called
Call ==
  /\ pc = "idle"
  /\ \E x0 \in Xs, y0 \in Ys : x' = x0 /\ y' = y0
  /\ pc' = "bounds"
  /\ UNCHANGED <<lblVars, wgtVars>>
  /\ UNCHANGED <<file, openOk, fOpen, fpos, bmpWidth, bmpHeight, bmpImageoffset,
                 rowSize, flip, goodBmp, w, h, row, col, pos, sdbuffer, buffidx,
                 writing, window, trace, lastPush, rowRead>>

\* if((x >= _display->width()) || (y >= _display->height())) return;
OutOfBounds(x0, y0) == (x0 >= DispW) \/ (y0 >= DispH)

BoundsCheck ==
  /\ pc = "bounds"
  /\ pc' = IF OutOfBounds(x, y) THEN "done" ELSE "open"
  /\ UNCHANGED <<lblVars, wgtVars>>
  /\ UNCHANGED <<x, y, file, openOk, fOpen, fpos, bmpWidth, bmpHeight,
                 bmpImageoffset, rowSize, flip, goodBmp, w, h, row, col, pos,
                 sdbuffer, buffidx, writing, window, trace, lastPush, rowRead>>

\* the handle closed on the failure path too
Open_CloseOnFailure ==
  /\ pc = "open"
  /\ \E ok \in BOOLEAN :
       /\ openOk' = ok
       /\ IF ok
            THEN /\ \E f \in Files : file' = f
                 /\ fOpen' = TRUE
                 /\ fpos' = 0
                 /\ trace' = [trace EXCEPT !.opens = @ + 1]
                 /\ pc' = "header"
            ELSE /\ UNCHANGED <<file, fOpen, fpos>>
                 /\ trace' = [trace EXCEPT !.closes = @ + 1]
                 /\ pc' = "done"
  /\ UNCHANGED <<lblVars, wgtVars>>
  /\ UNCHANGED <<x, y, bmpWidth, bmpHeight, bmpImageoffset, rowSize, flip,
                 goodBmp, w, h, row, col, pos, sdbuffer, buffidx, writing,
                 window, lastPush, rowRead>>
\* if (!(bmpFile = SD.open(filename))) return;
Open ==
  /\ pc = "open"
  /\ \E ok \in BOOLEAN :
       /\ openOk' = ok
       /\ IF ok
            THEN /\ \E f \in Files : file' = f
                 /\ fOpen' = TRUE
                 /\ fpos' = 0
                 /\ trace' = [trace EXCEPT !.opens = @ + 1]
                 /\ pc' = "header"
            ELSE /\ UNCHANGED <<file, fOpen, fpos, trace>>
                 /\ pc' = "done"
  /\ UNCHANGED <<lblVars, wgtVars>>
  /\ UNCHANGED <<x, y, bmpWidth, bmpHeight, bmpImageoffset, rowSize, flip,
                 goodBmp, w, h, row, col, pos, sdbuffer, buffidx, writing,
                 window, lastPush, rowRead>>

\* The header checks, in the order the code reads: how many bytes are read
\* before the parse stops, and whether it accepts.
HeaderOk(f) ==
  /\ read16(f, 0) = BM
  /\ read16(f, 26) = 1
  /\ ToUint8(read16(f, 28)) = 24
  /\ read32(f, 30) = 0

HeaderBytesRead(f) ==
  IF read16(f, 0) # BM THEN 2
  ELSE IF read16(f, 26) # 1 THEN 28
  ELSE IF ToUint8(read16(f, 28)) # 24 THEN 30
  ELSE 34

\* a mismatch returns without closing the file
AfterHeader_Return(ok) == IF ok THEN "setup" ELSE "done"
\* a mismatch skips to bmpFile.close()
AfterHeader(ok) == IF ok THEN "setup" ELSE "close"

\* Parse BMP header
ParseHeader ==
  /\ pc = "header"
  /\ fpos' = FAdvance(file, fpos, HeaderBytesRead(file))
  /\ trace' = storageOp(trace, writing)
  /\ IF HeaderBytesRead(file) >= 26
       THEN /\ bmpImageoffset' = read32(file, 10)
            /\ bmpWidth' = read32(file, 18)
            /\ bmpHeight' = read32(file, 22)
       ELSE UNCHANGED <<bmpImageoffset, bmpWidth, bmpHeight>>
  /\ goodBmp' = HeaderOk(file)
  /\ pc' = AfterHeader(HeaderOk(file))
  /\ UNCHANGED <<lblVars, wgtVars>>
  /\ UNCHANGED <<x, y, file, openOk, fOpen, rowSize, flip, w, h, row, col, pos,
                 sdbuffer, buffidx, writing, window, lastPush, rowRead>>


\* crops only once the image is two columns over the edge
CropW_OffByOne(x0, bw) == IF (x0 + bw - 1) > DispW THEN DispW - x0 ELSE bw
\* Crop area to be loaded
\* if((x+w-1) >= _display->width())  w = _display->width()  - x;
CropW(x0, bw) == IF (x0 + bw - 1) >= DispW THEN DispW - x0 ELSE bw
\* if((y+h-1) >= _display->height()) h = _display->height() - y;
CropH(y0, bh) == IF (y0 + bh - 1) >= DispH THEN DispH - y0 ELSE bh

\* goodBmp: row size, row order, crop
Setup ==
  /\ pc = "setup"
  /\ rowSize' = RowStride(bmpWidth)
  /\ bmpHeight' = IF bmpHeight < 0 THEN -bmpHeight ELSE bmpHeight
  /\ flip' = IF bmpHeight < 0 THEN FALSE ELSE flip
  /\ w' = CropW(x, bmpWidth)
  /\ h' = CropH(y, bmpHeight')
  /\ pc' = "window"
  /\ UNCHANGED <<lblVars, wgtVars>>
  /\ UNCHANGED <<x, y, file, openOk, fOpen, fpos, bmpWidth, bmpImageoffset,
                 goodBmp, row, col, pos, sdbuffer, buffidx, writing, window,
                 trace, lastPush, rowRead>>

\* _display->startWrite(); _display->setAddrWindow(x, y, w, h); row = 0
StartWindow ==
  /\ pc = "window"
  /\ writing' = TRUE
  /\ trace' = [displayOp(startWrite(trace, writing), TRUE) EXCEPT !.windows = @ + 1]
  /\ window' = [set |-> TRUE, x |-> x, y |-> y, w |-> w, h |-> h]
  /\ row' = 0
  /\ pc' = "row"
  /\ UNCHANGED <<lblVars, wgtVars>>
  /\ UNCHANGED <<x, y, file, openOk, fOpen, fpos, bmpWidth, bmpHeight,
                 bmpImageoffset, rowSize, flip, goodBmp, w, h, col, pos,
                 sdbuffer, buffidx, lastPush, rowRead>>

\* the flip forgotten
RowPos_NoFlip(fl, off, bh, r, rs) == off + r * rs
\* Seek to start of scan line: the file offset of output row r
RowPos(fl, off, bh, r, rs) ==
  IF fl THEN off + (bh - 1 - r) * rs   \* stored bottom-to-top (normal BMP)
        ELSE off + r * rs              \* stored top-to-bottom

\* if(bmpFile.position() != pos)
NeedSeek(p, target) == p # target

\* for (row=0; row<h; row++): the loop test, pos, and the test for a seek
RowStart ==
  /\ pc = "row"
  /\ row < h
  /\ pos' = RowPos(flip, bmpImageoffset, bmpHeight, row, rowSize)
  /\ col' = 0
  /\ rowRead' = [row |-> row, last |-> 0, at |-> fpos, sought |-> FALSE,
                  fresh |-> FALSE]
  /\ pc' = IF NeedSeek(fpos, pos') THEN "seek_end" ELSE "col"
  /\ UNCHANGED <<lblVars, wgtVars>>
  /\ UNCHANGED <<x, y, file, openOk, fOpen, fpos, bmpWidth, bmpHeight,
                 bmpImageoffset, rowSize, flip, goodBmp, w, h, row, sdbuffer,
                 buffidx, writing, window, trace, lastPush>>

\* the seek block without its endWrite
SeekEndWrite_Skipped ==
  /\ pc = "seek_end"
  /\ pc' = "seek"
  /\ UNCHANGED <<lblVars, wgtVars>>
  /\ UNCHANGED <<x, y, file, openOk, fOpen, fpos, bmpWidth, bmpHeight,
                 bmpImageoffset, rowSize, flip, goodBmp, w, h, row, col, pos,
                 sdbuffer, buffidx, writing, window, trace, lastPush, rowRead>>

\* _display->endWrite() before the seek
SeekEndWrite ==
  /\ pc = "seek_end"
  /\ trace' = endWrite(trace, writing)
  /\ writing' = FALSE
  /\ pc' = "seek"
  /\ UNCHANGED <<lblVars, wgtVars>>
  /\ UNCHANGED <<x, y, file, openOk, fOpen, fpos, bmpWidth, bmpHeight,
                 bmpImageoffset, rowSize, flip, goodBmp, w, h, row, col, pos,
                 sdbuffer, buffidx, window, lastPush, rowRead>>

\* File::seek: refused, position kept, when the target is behind the file's end
SeekTo(f, p, target) == IF target <= f.size THEN target ELSE p

\* bmpFile.seek(pos); buffidx = sizeof(sdbuffer)
SeekFile ==
  /\ pc = "seek"
  /\ fpos' = SeekTo(file, fpos, pos)
  /\ buffidx' = BufSize
  /\ trace' = [storageOp(trace, writing) EXCEPT !.seeks = @ + 1]
  /\ rowRead' = [rowRead EXCEPT !.sought = TRUE, !.fresh = FALSE]
  /\ pc' = "seek_start"
  /\ UNCHANGED <<lblVars, wgtVars>>
  /\ UNCHANGED <<x, y, file, openOk, fOpen, bmpWidth, bmpHeight,
                 bmpImageoffset, rowSize, flip, goodBmp, w, h, row, col, pos,
                 sdbuffer, writing, window, lastPush>>

\* _display->startWrite() after the seek
SeekStartWrite ==
  /\ pc = "seek_start"
  /\ trace' = startWrite(trace, writing)
  /\ writing' = TRUE
  /\ pc' = "col"
  /\ UNCHANGED <<lblVars, wgtVars>>
  /\ UNCHANGED <<x, y, file, openOk, fOpen, fpos, bmpWidth, bmpHeight,
                 bmpImageoffset, rowSize, flip, goodBmp, w, h, row, col, pos,
                 sdbuffer, buffidx, window, lastPush, rowRead>>

\* for (col=0; col<w; col++) has run out: row++
RowDone ==
  /\ pc = "col"
  /\ ~(col < w)
  /\ row' = row + 1
  /\ pc' = "row"
  /\ UNCHANGED <<lblVars, wgtVars>>
  /\ UNCHANGED <<x, y, file, openOk, fOpen, fpos, bmpWidth, bmpHeight,
                 bmpImageoffset, rowSize, flip, goodBmp, w, h, col, pos,
                 sdbuffer, buffidx, writing, window, trace, lastPush, rowRead>>

\* refills one pixel early
NeedRefill_Early(idx) == idx >= BufSize - 3
\* if (buffidx >= sizeof(sdbuffer))
NeedRefill(idx) == idx >= BufSize

\* Time to read more pixel data: _display->endWrite()
RefillEndWrite ==
  /\ pc = "col"
  /\ col < w
  /\ NeedRefill(buffidx)
  /\ trace' = endWrite(trace, writing)
  /\ writing' = FALSE
  /\ pc' = "refill"
  /\ UNCHANGED <<lblVars, wgtVars>>
  /\ UNCHANGED <<x, y, file, openOk, fOpen, fpos, bmpWidth, bmpHeight,
                 bmpImageoffset, rowSize, flip, goodBmp, w, h, row, col, pos,
                 sdbuffer, buffidx, window, lastPush, rowRead>>

\* File::read(buf, n): the bytes the file has from p on, at most n
ReadCount(f, p, n) == Max(0, Min(n, f.size - p))

\* bmpFile.read(sdbuffer, sizeof(sdbuffer)); buffidx = 0
RefillRead ==
  /\ pc = "refill"
  /\ LET n == ReadCount(file, fpos, BufSize)
     IN /\ sdbuffer' = [i \in 1 .. BufSize |->
                          IF i <= n THEN FileByte(file, fpos + i - 1) ELSE sdbuffer[i]]
        /\ fpos' = fpos + n
        /\ rowRead' = [rowRead EXCEPT !.last = IF n > 0 THEN Max(@, fpos + n) ELSE @,
                                      !.fresh = TRUE]
  /\ buffidx' = 0
  /\ trace' = [storageOp(trace, writing) EXCEPT !.refills = @ + 1]
  /\ pc' = "refill_start"
  /\ UNCHANGED <<lblVars, wgtVars>>
  /\ UNCHANGED <<x, y, file, openOk, fOpen, bmpWidth, bmpHeight,
                 bmpImageoffset, rowSize, flip, goodBmp, w, h, row, col, pos,
                 writing, window, lastPush>>

\* _display->startWrite() after the refill
RefillStartWrite ==
  /\ pc = "refill_start"
  /\ trace' = startWrite(trace, writing)
  /\ writing' = TRUE
  /\ pc' = "pixel"
  /\ UNCHANGED <<lblVars, wgtVars>>
  /\ UNCHANGED <<x, y, file, openOk, fOpen, fpos, bmpWidth, bmpHeight,
                 bmpImageoffset, rowSize, flip, goodBmp, w, h, row, col, pos,
                 sdbuffer, buffidx, window, lastPush, rowRead>>

\* sdbuffer[i]: a byte never written holds whatever the stack held
BufByte(buf, i) == IF buf[i + 1] = Uninit THEN GarbageBytes ELSE {buf[i + 1]}

\* two bytes taken per pixel
NextIndex_Pair(idx) == idx + 2
\* buffidx after the three sdbuffer[buffidx++] of a pixel
NextIndex(idx) == idx + 3

\* b = sdbuffer[buffidx++]; g = ...; r = ...; pushColor(color565(r,g,b)); col++
Pixel ==
  /\ \/ pc = "pixel"
     \/ pc = "col" /\ col < w /\ ~NeedRefill(buffidx)
  /\ \E b \in BufByte(sdbuffer, buffidx), g \in BufByte(sdbuffer, buffidx + 1),
        r \in BufByte(sdbuffer, buffidx + 2) :
       lastPush' = [any |-> TRUE, row |-> row, col |-> col, idx |-> buffidx,
                    b |-> b, g |-> g, r |-> r, color |-> color565(r, g, b)]
  /\ buffidx' = NextIndex(buffidx)
  /\ trace' = [displayOp(trace, writing) EXCEPT !.pushes = @ + 1]
  /\ col' = col + 1
  /\ pc' = "col"
  /\ UNCHANGED <<lblVars, wgtVars>>
  /\ UNCHANGED <<x, y, file, openOk, fOpen, fpos, bmpWidth, bmpHeight,
                 bmpImageoffset, rowSize, flip, goodBmp, w, h, row, pos,
                 sdbuffer, writing, window, rowRead>>

\* the last transaction left open
Finish_NoEndWrite ==
  /\ pc = "row"
  /\ ~(row < h)
  /\ pc' = "close"
  /\ UNCHANGED <<lblVars, wgtVars>>
  /\ UNCHANGED <<x, y, file, openOk, fOpen, fpos, bmpWidth, bmpHeight,
                 bmpImageoffset, rowSize, flip, goodBmp, w, h, row, col, pos,
                 sdbuffer, buffidx, writing, window, trace, lastPush, rowRead>>

\* the row loop has run out: _display->endWrite()
Finish ==
  /\ pc = "row"
  /\ ~(row < h)
  /\ trace' = endWrite(trace, writing)
  /\ writing' = FALSE
  /\ pc' = "close"
  /\ UNCHANGED <<lblVars, wgtVars>>
  /\ UNCHANGED <<x, y, file, openOk, fOpen, fpos, bmpWidth, bmpHeight,
                 bmpImageoffset, rowSize, flip, goodBmp, w, h, row, col, pos,
                 sdbuffer, buffidx, window, lastPush, rowRead>>

\* bmpFile.close()
Close ==
  /\ pc = "close"
  /\ fOpen' = FALSE
  /\ trace' = [trace EXCEPT !.closes = @ + 1]
  /\ pc' = "done"
  /\ UNCHANGED <<lblVars, wgtVars>>
  /\ UNCHANGED <<x, y, file, openOk, fpos, bmpWidth, bmpHeight,
                 bmpImageoffset, rowSize, flip, goodBmp, w, h, row, col, pos,
                 sdbuffer, buffidx, writing, window, lastPush, rowRead>>

BmpNext ==
  \/ Call \/ BoundsCheck \/ Open \/ ParseHeader \/ Setup \/ StartWindow
  \/ RowStart \/ SeekEndWrite \/ SeekFile \/ SeekStartWrite \/ RowDone
  \/ RefillEndWrite \/ RefillRead \/ RefillStartWrite \/ Pixel \/ Finish
  \/ Close

(***************************************************************************)
(* Label (Graphics.cpp).  A String is the sequence of its bytes; the       *)
(* display prints in the fixed 6x8 cell font, a character of text size s   *)
(* taking 6s x 8s pixels, and its text size set to 0 becomes 1.            *)
(***************************************************************************)
MaxLen == 3        \* longest content, in bytes
MaxSize == 2       \* largest text size
MaxX == 100        \* largest requested coordinate

DegHi == 194       \* the two bytes of the degree sign in a source string
DegLo == 176
DegChar == 248     \* (char) 248

\* "A", "AB", "ABC", ...: n different letters, from 'A' = 65 on
Letters(n) == [i \in 1 .. n |-> 64 + i]
Degree == <<DegHi, DegLo>>
\* contents of up to MaxLen bytes: letters, and letters after or before a
\* degree sign
Names ==
  { Letters(n) : n \in 0 .. MaxLen }
    \cup { Degree \o Letters(n) : n \in 0 .. MaxLen - 2 }
    \cup { Letters(n) \o Degree : n \in 1 .. MaxLen - 2 }
Sizes == 0 .. MaxSize
Subscripts == 0 .. MaxLen
Alignments == {TOP + LEFT, RIGHT, BOTTOM, RIGHT + BOTTOM}
Coords == {0, MaxX}
\* requested positions: the origin, and one that no correction wraps
Points == {<<c, c>> : c \in Coords}
Colors == {0, 65535}
\* text colors of the Labels: white
TextColors == {65535}


\* CORRECT_DEGREE_CHAR: str.replace("deg", String((char) 248))
RECURSIVE CorrectDegree(_)
CorrectDegree(str) ==
  IF Len(str) = 0 THEN str
  ELSE IF Len(str) >= 2 /\ str[1] = DegHi /\ str[2] = DegLo
    THEN <<DegChar>> \o CorrectDegree(SubSeq(str, 3, Len(str)))
    ELSE <<str[1]>> \o CorrectDegree(SubSeq(str, 2, Len(str)))

\* String::substring(left, right): the bytes at left .. right-1
Substring(str, left, right) ==
  LET lo == Min(left, right)
      hi == Min(Max(left, right), Len(str))
  IN IF lo >= Len(str) THEN <<>> ELSE SubSeq(str, lo + 1, hi)

\* String::operator[]: the byte at index i, 0 behind the end
CharAt(str, i) == IF i < Len(str) THEN str[i + 1] ELSE 0

\* String(char): the one-character string, empty for the terminator
StringOfChar(c) == IF c = 0 THEN <<>> ELSE <<c>>

\* Adafruit_GFX::setTextSize
TextSize(s) == IF ToUint8(s) > 0 THEN ToUint8(s) ELSE 1

\* Adafruit_GFX::getTextBounds in the fixed cell font, no wrapping
TextBounds(str, x0, y0, ts) ==
  IF Len(str) = 0
    THEN [x |-> x0, y |-> y0, w |-> 0, h |-> 0]
    ELSE [x |-> x0, y |-> y0, w |-> ToUint16(Len(str) * CHAR_W * ts),
          h |-> ToUint16(CHAR_H * ts)]

\* the vertical correction only
CorrectForAlignment_BottomOnly(l) ==
  IF (l.alignment \div 2) % 2 = 1
    THEN [l EXCEPT !.y = ToUint16(l.y - l.size * CHAR_H)]
    ELSE l
\* Label::correctForAlignment(void), on the fields of l
CorrectForAlignment(l) ==
  LET x1 == IF (l.alignment % 2) = RIGHT
              THEN ToUint16(l.x - Len(l.name) * l.size * CHAR_W
                            - (IF l.subscript # 0 THEN CHAR_W ELSE 0))
              ELSE l.x
      y1 == IF (l.alignment \div 2) % 2 = 1
              THEN ToUint16(l.y - l.size * CHAR_H)
              ELSE l.y
  IN [l EXCEPT !.x = x1, !.y = y1]

\* the shift by the change of length only
CorrectForNewName_LengthOnly(l, name, subscript) ==
  IF (l.alignment % 2) = RIGHT
    THEN [l EXCEPT !.x = ToUint16(l.x - ToInt16((Len(name) - Len(l.name)) * l.size * CHAR_W))]
    ELSE l
\* the subscript corrections with their signs exchanged
CorrectForNewName_SignsSwapped(l, name, subscript) ==
  IF (l.alignment % 2) = RIGHT
    THEN LET d0 == ToInt16((Len(name) - Len(l.name)) * l.size * CHAR_W)
             d1 == IF subscript = 0 /\ l.subscript # 0 THEN ToInt16(d0 - CHAR_W) ELSE d0
             dif == IF subscript # 0 /\ l.subscript = 0 THEN ToInt16(d1 + CHAR_W) ELSE d1
         IN [l EXCEPT !.x = ToUint16(l.x - dif)]
    ELSE l
\* Label::correctForAlignment(String name, uint8_t subscript)
CorrectForNewName(l, name, subscript) ==
  IF (l.alignment % 2) = RIGHT
    THEN LET d0 == ToInt16((Len(name) - Len(l.name)) * l.size * CHAR_W)
             d1 == IF subscript = 0 /\ l.subscript # 0 THEN ToInt16(d0 + CHAR_W) ELSE d0
             dif == IF subscript # 0 /\ l.subscript = 0 THEN ToInt16(d1 - CHAR_W) ELSE d1
         IN [l EXCEPT !.x = ToUint16(l.x - dif)]
    ELSE l

\* the subscript character written on the line of the others
PrintRuns_NotLowered(l) ==
  LET x0 == ToInt16(l.x)
      y0 == ToInt16(l.y)
      ts == TextSize(l.size)
  IN IF l.subscript # 0
       THEN LET pre == Substring(l.name, 0, l.subscript - 1)
                x1 == ToInt16(x0 + Len(pre) * CHAR_W * ts)
                t1 == TextSize(l.size - 1)
                x2 == ToInt16(x1 + CHAR_W * t1)
            IN << [text |-> pre, x |-> x0, y |-> y0, size |-> ts,
                   asked |-> ToUint8(l.size)],
                  [text |-> <<CharAt(l.name, l.subscript - 1)>>, x |-> x1,
                   y |-> y0, size |-> t1, asked |-> ToUint8(l.size - 1)],
                  [text |-> Substring(l.name, l.subscript, Len(l.name)),
                   x |-> x2, y |-> y0, size |-> ts, asked |-> ToUint8(l.size)] >>
       ELSE << [text |-> l.name, x |-> x0, y |-> y0, size |-> ts,
                asked |-> ToUint8(l.size)] >>
\* the print() calls of Label::print, each with the cursor, the text size
\* in effect and the text size asked of setTextSize
PrintRuns(l) ==
  LET x0 == ToInt16(l.x)
      y0 == ToInt16(l.y)
      ts == TextSize(l.size)
  IN IF l.subscript # 0
       THEN LET pre == Substring(l.name, 0, l.subscript - 1)
                x1 == ToInt16(x0 + Len(pre) * CHAR_W * ts)
                hh == ToUint16(8 * l.size)
                t1 == TextSize(l.size - 1)
                x2 == ToInt16(x1 + CHAR_W * t1)
            IN << [text |-> pre, x |-> x0, y |-> y0, size |-> ts,
                   asked |-> ToUint8(l.size)],
                  [text |-> <<CharAt(l.name, l.subscript - 1)>>, x |-> x1,
                   y |-> ToInt16(y0 + hh \div 2), size |-> t1,
                   asked |-> ToUint8(l.size - 1)],
                  [text |-> Substring(l.name, l.subscript, Len(l.name)),
                   x |-> x2, y |-> y0, size |-> ts, asked |-> ToUint8(l.size)] >>
       ELSE << [text |-> l.name, x |-> x0, y |-> y0, size |-> ts,
                asked |-> ToUint8(l.size)] >>

\* the subscript correction applied to every Label
EraseRect_AlwaysNarrow(l, color) ==
  LET b == TextBounds(l.name, ToInt16(l.x), ToInt16(l.y), TextSize(l.size))
  IN [set |-> TRUE, x |-> b.x, y |-> b.y, w |-> ToInt16(ToUint16(b.w - CHAR_W)),
      h |-> ToInt16(b.h), color |-> color]
\* the subscript correction of the width only
EraseRect_FullHeight(l, color) ==
  LET b == TextBounds(l.name, ToInt16(l.x), ToInt16(l.y), TextSize(l.size))
      ww == IF l.subscript # 0 THEN ToUint16(b.w - CHAR_W) ELSE b.w
  IN [set |-> TRUE, x |-> b.x, y |-> b.y, w |-> ToInt16(ww), h |-> ToInt16(b.h),
      color |-> color]
\* the fillRect of Label::erase
EraseRect(l, color) ==
  LET b == TextBounds(l.name, ToInt16(l.x), ToInt16(l.y), TextSize(l.size))
      b1 == TextBounds(StringOfChar(CharAt(l.name, l.subscript - 1)),
                       ToInt16(l.x), ToInt16(l.y), TextSize(l.size - 1))
      hh == IF l.subscript # 0 THEN ToUint16(b.h \div 2 + b1.h) ELSE b.h
      ww == IF l.subscript # 0 THEN ToUint16(b.w - CHAR_W) ELSE b.w
  IN [set |-> TRUE, x |-> b.x, y |-> b.y, w |-> ToInt16(ww), h |-> ToInt16(hh),
      color |-> color]

\* the members after Label::Label(x, y, name, size, color, subscript,
\* alignment): initialisers, correctForAlignment(), CORRECT_DEGREE_CHAR
NewLabel(x0, y0, name, size, color, subscript, alignment) ==
  LET l0 == [made |-> TRUE, x |-> ToUint16(x0), y |-> ToUint16(y0),
             name |-> name, subscript |-> subscript, size |-> size,
             color |-> color, alignment |-> alignment]
      l1 == CorrectForAlignment(l0)
  IN [l1 EXCEPT !.name = CorrectDegree(l1.name)]

\* what a call finds in the Label: anchor, content length, subscript
Found(l) == [x |-> l.x, y |-> l.y, len |-> Len(l.name), subscript |-> l.subscript]

\* Label::Label(x, y, name, size, color, subscript, alignment)
Construct ==
  /\ lbl = NoLabel
  /\ \E p \in Points, name \in Names, size \in Sizes,
        color \in TextColors, subscript \in Subscripts, alignment \in Alignments :
       LET l2 == NewLabel(p[1], p[2], name, size, color, subscript, alignment)
       IN /\ lbl' = l2
          /\ runs' = PrintRuns(l2)
          /\ call' = [op |-> "Label", x |-> p[1], y |-> p[2], name |-> name,
                      subscript |-> subscript, alignment |-> alignment]
  /\ rect' = NoRect
  /\ UNCHANGED <<bmpVars, wgtVars>>

\* the alignment correction applied again at every print
AfterPrint_Realigned(l) == CorrectForAlignment(l)
\* the members after Label::print: none is assigned
AfterPrint(l) == l
\* the members after Label::erase: none is assigned
AfterErase(l) == l

\* void Label::print(void)
LabelPrint ==
  /\ lbl # NoLabel
  /\ runs' = PrintRuns(lbl)
  /\ lbl' = AfterPrint(lbl)
  /\ call' = [op |-> "print", before |-> lbl]
  /\ UNCHANGED rect
  /\ UNCHANGED <<bmpVars, wgtVars>>

\* void Label::erase(uint16_t color)
Erase ==
  /\ lbl # NoLabel
  /\ \E color \in Colors : rect' = EraseRect(lbl, color)
  /\ lbl' = AfterErase(lbl)
  /\ call' = [op |-> "erase", before |-> lbl]
  /\ UNCHANGED runs
  /\ UNCHANGED <<bmpVars, wgtVars>>

\* the position stored as requested, without correction
Reposition_Uncorrected(l, x0, y0, alignment) ==
  [l EXCEPT !.x = ToUint16(x0), !.y = ToUint16(y0), !.alignment = alignment]
\* the members after Label::changePosition(x, y, alignment)
Reposition(l, x0, y0, alignment) ==
  CorrectForAlignment([l EXCEPT !.x = ToUint16(x0), !.y = ToUint16(y0),
                                !.alignment = alignment])

\* void Label::changePosition(int16_t x, int16_t y, uint8_t alignment)
ChangePosition ==
  /\ lbl # NoLabel
  /\ \E p \in Points, alignment \in Alignments :
       /\ lbl' = Reposition(lbl, p[1], p[2], alignment)
       /\ call' = [op |-> "changePosition", x |-> p[1], y |-> p[2],
                   alignment |-> alignment]
  /\ runs' = <<>>
  /\ rect' = NoRect
  /\ UNCHANGED <<bmpVars, wgtVars>>

\* the members after Label::changeName(name, subscript)
Rename(l, name, subscript) ==
  LET n1 == CorrectDegree(name)
      l1 == CorrectForNewName(l, n1, subscript)
  IN [l1 EXCEPT !.name = n1, !.subscript = subscript]

\* void Label::changeName(String name, uint8_t subscript)
ChangeName ==
  /\ lbl # NoLabel
  /\ \E name \in Names, subscript \in Subscripts :
       /\ lbl' = Rename(lbl, name, subscript)
       /\ call' = [op |-> "changeName", name |-> name,
                   subscript |-> subscript, found |-> Found(lbl)]
  /\ runs' = <<>>
  /\ rect' = NoRect
  /\ UNCHANGED <<bmpVars, wgtVars>>

(***************************************************************************)
(* Labels of numeric content: String(val, DEC), String(val, 2)             *)
(***************************************************************************)
MaxVal == 400      \* largest numeric value shown

Space == 32        \* ' '
Zero == 48         \* '0'
Dot == 46          \* '.'
Minus == 45        \* '-'
Colon == 58        \* ':'

\* String(val, DEC) of an unsigned value: its digits, most significant first
RECURSIVE Decimal(_)
Decimal(v) ==
  IF v < 10 THEN <<Zero + v>> ELSE Decimal(v \div 10) \o <<Zero + (v % 10)>>

\* String(val, 2) of a float of hundredths/100: sign, integer part, '.', two
\* decimals
Float2(hundredths) ==
  LET a == Abs(hundredths)
  IN (IF hundredths < 0 THEN <<Minus>> ELSE <<>>)
       \o Decimal(a \div 100) \o <<Dot, Zero + ((a \div 10) % 10), Zero + (a % 10)>>

\* unsigned values, and floats in hundredths
Uints == {0, 7, 12, MaxVal}
Hundredths == {-100, 0, 350}

\* the content always formatted, zero too
UintText_NoBlank(val) == Decimal(val)
\* (val > 0 ? String(val, DEC) : " ")
UintText(val) == IF val > 0 THEN Decimal(val) ELSE <<Space>>
\* (val > 0 ? String(val, 2) : " ")
FloatText(hundredths) == IF hundredths > 0 THEN Float2(hundredths) ELSE <<Space>>

\* Label::Label(x, y, uint16_t val, size, color, alignment)
ConstructUint ==
  /\ lbl = NoLabel
  /\ \E p \in Points, val \in Uints, size \in Sizes, color \in TextColors,
        alignment \in Alignments :
       LET l2 == NewLabel(p[1], p[2], UintText(val), size, color, 0, alignment)
       IN /\ lbl' = l2
          /\ runs' = PrintRuns(l2)
          /\ call' = [op |-> "Label(uint16_t)", x |-> p[1], y |-> p[2],
                      val |-> val, alignment |-> alignment]
  /\ rect' = NoRect
  /\ UNCHANGED <<bmpVars, wgtVars>>

\* Label::Label(x, y, float val, size, color, alignment)
ConstructFloat ==
  /\ lbl = NoLabel
  /\ \E p \in Points, val \in Hundredths, size \in Sizes, color \in TextColors,
        alignment \in Alignments :
       LET l2 == NewLabel(p[1], p[2], FloatText(val), size, color, 0, alignment)
       IN /\ lbl' = l2
          /\ runs' = PrintRuns(l2)
          /\ call' = [op |-> "Label(float)", x |-> p[1], y |-> p[2],
                      val |-> val, alignment |-> alignment]
  /\ rect' = NoRect
  /\ UNCHANGED <<bmpVars, wgtVars>>

\* void Label::changeName(uint16_t val)
ChangeNameUint ==
  /\ lbl # NoLabel
  /\ \E val \in Uints :
       /\ lbl' = Rename(lbl, Decimal(val), 0)
       /\ call' = [op |-> "changeName(uint16_t)", val |-> val,
                   found |-> Found(lbl)]
  /\ runs' = <<>>
  /\ rect' = NoRect
  /\ UNCHANGED <<bmpVars, wgtVars>>

\* void Label::changeName(float val)
ChangeNameFloat ==
  /\ lbl # NoLabel
  /\ \E val \in Hundredths :
       /\ lbl' = Rename(lbl, Float2(val), 0)
       /\ call' = [op |-> "changeName(float)", val |-> val,
                   found |-> Found(lbl)]
  /\ runs' = <<>>
  /\ rect' = NoRect
  /\ UNCHANGED <<bmpVars, wgtVars>>

NumNext ==
  ConstructUint \/ ConstructFloat \/ ChangeNameUint \/ ChangeNameFloat
    \/ LabelPrint \/ Erase
LblNext == Construct \/ LabelPrint \/ Erase \/ ChangePosition \/ ChangeName

(***************************************************************************)
(* The widgets: ValueBar, HeaderBar, CalibrationWarning.  One widget is    *)
(* constructed; its Labels are wgt.labels, in the order of declaration.    *)
(* The display is ScreenW wide, and every text fits its line.              *)
(***************************************************************************)
ScreenW == 480     \* _display->width(), the x that is out of visible range
ScreenH == 320     \* the y that is out of visible range
Radius == 10       \* corner radius of the background shapes

BoxX == 10         \* upper left corner of a widget
BoxY == 20
BoxW == 300        \* width and height of a widget
BoxH == 60
MaxT == 3725       \* a time more than an hour after the epoch, in seconds

\* DateTime, as seconds from 2000-01-01 00:00:00, within January 2000
JanEnd == 31 * 86400 - 1
Times == {0, 59, MaxT, JanEnd}
hour(t) == (t \div 3600) % 24
minute(t) == (t \div 60) % 60
day(t) == 1 + t \div 86400
month(t) == 1
year(t) == 2000

\* C division and remainder, truncating towards zero
CDiv(a, b) == IF a >= 0 THEN a \div b ELSE -((-a) \div b)
CMod(a, b) == a - b * CDiv(a, b)

\* TimeSpan::minutes(), TimeSpan::seconds() of a span of secs seconds
\* the whole minutes of the span, hours included
minutes_Total(secs) == CDiv(secs, 60)
minutes(secs) == CMod(CDiv(secs, 60), 60)
seconds(secs) == CMod(secs, 60)

\* String dig2(int number)
dig2(number) ==
  << ToUint8(Zero + CMod(CDiv(number, 10), 10)), ToUint8(Zero + CMod(number, 10)) >>

\* the Labels of a widget that its update operations change
ValueLabel == 2    \* ValueBar::_labels[1]
DateLabel == 1     \* HeaderBar::_date
TimeLabel == 2     \* HeaderBar::_time
Co2NameLabel == 1  \* CalibrationWarning::_co2Name
Co2ValueLabel == 2 \* CalibrationWarning::_co2Value
CountdownLabel == 3 \* CalibrationWarning::_countdown

\* names and units of a ValueBar, the name with or without subscript
BarNames == {Letters(MaxLen)}
BarUnits == {Letters(MaxLen), Degree \o Letters(1)}
BarSubscripts == {0, MaxLen}

\* the cells painted by the runs of a print: their bounding box
RunBox(r) ==
  [x |-> r.x, y |-> r.y, w |-> Len(r.text) * CHAR_W * r.size, h |-> CHAR_H * r.size]
Footprint(rs) ==
  LET ink == {i \in 1 .. Len(rs) : Len(rs[i].text) > 0}
  IN IF ink = {} THEN NoRect
     ELSE LET x0 == CHOOSE v \in {rs[i].x : i \in ink} : \A i \in ink : v <= rs[i].x
              y0 == CHOOSE v \in {rs[i].y : i \in ink} : \A i \in ink : v <= rs[i].y
              x1 == CHOOSE v \in {RunBox(rs[i]).x + RunBox(rs[i]).w : i \in ink} :
                      \A i \in ink : v >= RunBox(rs[i]).x + RunBox(rs[i]).w
              y1 == CHOOSE v \in {RunBox(rs[i]).y + RunBox(rs[i]).h : i \in ink} :
                      \A i \in ink : v >= RunBox(rs[i]).y + RunBox(rs[i]).h
          IN [set |-> TRUE, x |-> x0, y |-> y0, w |-> x1 - x0, h |-> y1 - y0]

\* getCursorX() after Label::print
CursorAfter(rs) ==
  LET r == rs[Len(rs)] IN ToInt16(r.x + Len(r.text) * CHAR_W * r.size)

\* the display operations
FillRoundRect(x0, y0, w0, h0, color) ==
  [op |-> "fillRoundRect", x |-> x0, y |-> y0, w |-> w0, h |-> h0,
   r |-> Radius, color |-> color]
FillRect(x0, y0, w0, h0, color) ==
  [op |-> "fillRect", x |-> x0, y |-> y0, w |-> w0, h |-> h0, color |-> color]
DrawLogo == [op |-> "bmpReader::draw", x |-> 1, y |-> 1]
StaticText == [op |-> "text"]
Printed(i, l) == [op |-> "print", label |-> i, runs |-> PrintRuns(l)]
Erased(i, l, color) == [op |-> "erase", label |-> i, rect |-> EraseRect(l, color)]

\* shown, after the Labels in is of the widget w were printed
ShownAfter(sh, wd, is) ==
  [i \in DOMAIN sh |-> IF i \in is THEN Footprint(PrintRuns(wd.labels[i])) ELSE sh[i]]

\* ValueBar::ValueBar(x, y, w, h, color, textColor, name, unit, subscript)
NewValueBar ==
  /\ wgt = NoWidget
  /\ \E color \in Colors, textColor \in TextColors, name \in BarNames,
        unit \in BarUnits, subscript \in BarSubscripts :
       LET size == 4
           y0 == ToInt16(BoxY + (BoxH + size * CHAR_H) \div 2)
           x0 == ToInt16(BoxX + 15)
           x1 == ToInt16(BoxX + (BoxW + 5 * size * CHAR_W) \div 2)
           x2 == ToInt16(BoxX + BoxW - 3 * (size - 1) * CHAR_W - 10)
           ls == << NewLabel(x0, y0, name, size - 1, textColor, subscript, BOTTOM),
                    NewLabel(x1, y0, <<Space>>, size, textColor, 0, RIGHT + BOTTOM),
                    NewLabel(x2, y0, unit, size - 1, textColor, 0, BOTTOM) >>
           w1 == [kind |-> "ValueBar", x |-> BoxX, y |-> BoxY, w |-> BoxW,
                  h |-> BoxH, color |-> color, labels |-> ls]
       IN /\ wgt' = w1
          /\ ops' = << FillRoundRect(BoxX, BoxY, BoxW, BoxH, color),
                       Printed(1, ls[1]), Printed(2, ls[2]), Printed(3, ls[3]) >>
          /\ bg' = color
          /\ shown' = ShownAfter(<<NoRect, NoRect, NoRect>>, w1, {1, 2, 3})
          /\ wcall' = [op |-> "ValueBar", color |-> color]
  /\ UNCHANGED <<bmpVars, lblVars>>

\* all three Labels printed
BarDrawOps_WithValue(wd) ==
  << FillRoundRect(wd.x, wd.y, wd.w, wd.h, wd.color),
     Printed(1, wd.labels[1]), Printed(2, wd.labels[2]), Printed(3, wd.labels[3]) >>
\* the operations of ValueBar::draw: drawBackground, then name and unit
BarDrawOps(wd) ==
  << FillRoundRect(wd.x, wd.y, wd.w, wd.h, wd.color),
     Printed(1, wd.labels[1]), Printed(3, wd.labels[3]) >>

\* void ValueBar::draw(void)
BarDraw ==
  /\ wgt.kind = "ValueBar"
  /\ ops' = BarDrawOps(wgt)
  /\ bg' = wgt.color
  /\ shown' = ShownAfter(shown, wgt, {1, 3})
  /\ wcall' = [op |-> "draw"]
  /\ UNCHANGED wgt
  /\ UNCHANGED <<bmpVars, lblVars>>

\* void ValueBar::erase(uint16_t color), void CalibrationWarning::erase
WidgetErase ==
  /\ wgt.kind \in {"ValueBar", "CalibrationWarning"}
  /\ \E color \in Colors :
       /\ ops' = << FillRoundRect(wgt.x, wgt.y, wgt.w, wgt.h, color) >>
       /\ wcall' = [op |-> "erase", color |-> color]
  /\ UNCHANGED <<wgt, bg, shown>>
  /\ UNCHANGED <<bmpVars, lblVars>>

\* the redraw made whatever the color
Recolor_Always(wd, sh, b, color) ==
  LET w1 == [wd EXCEPT !.color = color]
  IN [wgt |-> w1, ops |-> BarDrawOps(w1), bg |-> color,
      shown |-> ShownAfter(sh, w1, {1, 3})]
\* the state after ValueBar::changeColor(color)
Recolor(wd, sh, b, color) ==
  IF color # wd.color
    THEN LET w1 == [wd EXCEPT !.color = color]
         IN [wgt |-> w1, ops |-> BarDrawOps(w1), bg |-> color,
             shown |-> ShownAfter(sh, w1, {1, 3})]
    ELSE [wgt |-> wd, ops |-> <<>>, bg |-> b, shown |-> sh]

\* void ValueBar::changeColor(uint16_t color)
ChangeColor ==
  /\ wgt.kind = "ValueBar"
  /\ \E color \in Colors :
       LET after == Recolor(wgt, shown, bg, color)
       IN /\ wgt' = after.wgt
          /\ ops' = after.ops
          /\ bg' = after.bg
          /\ shown' = after.shown
          /\ wcall' = [op |-> "changeColor", color |-> color, before |-> wgt,
                       bgBefore |-> bg]
  /\ UNCHANGED <<bmpVars, lblVars>>

\* the content changed before the erase
RefreshSteps_RenameFirst(wd, i, text) ==
  LET l2 == Rename(wd.labels[i], text, 0)
  IN [wgt |-> [wd EXCEPT !.labels[i] = l2],
      ops |-> << Erased(i, l2, wd.color), Printed(i, l2) >>]
\* label.erase(_color); label.changeName(text); label.print();
RefreshSteps(wd, i, text) ==
  LET l2 == Rename(wd.labels[i], text, 0)
  IN [wgt |-> [wd EXCEPT !.labels[i] = l2],
      ops |-> << Erased(i, wd.labels[i], wd.color), Printed(i, l2) >>]

\* the update of Label i of the widget, called op with the argument val
Refresh(op, i, val, text) ==
  LET after == RefreshSteps(wgt, i, text)
  IN /\ wgt' = after.wgt
     /\ ops' = after.ops
     /\ shown' = ShownAfter(shown, after.wgt, {i})
     /\ wcall' = [op |-> op, label |-> i, val |-> val, was |-> shown[i],
                  color |-> wgt.color]
     /\ UNCHANGED bg
     /\ UNCHANGED <<bmpVars, lblVars>>

\* void ValueBar::refreshValue(uint16_t val)
RefreshValue ==
  /\ wgt.kind = "ValueBar"
  /\ \E val \in Uints : Refresh("refreshValue", ValueLabel, val, Decimal(val))

\* void ValueBar::refreshValue(float val)
RefreshValueFloat ==
  /\ wgt.kind = "ValueBar"
  /\ \E val \in Hundredths :
       Refresh("refreshValue(float)", ValueLabel, val, Float2(val))

\* HeaderBar::HeaderBar(h, color, textColor, logoFile)
NewHeaderBar ==
  /\ wgt = NoWidget
  /\ \E color \in Colors, textColor \in TextColors :
       LET size == 3
           h0 == ToInt16((BoxH + size * CHAR_H) \div 2)
           ls == << NewLabel(ScreenW - 5, h0, UintText(0), size - 1, textColor,
                             0, RIGHT + BOTTOM),
                    NewLabel((ScreenW - 5 * size * CHAR_W) \div 2, h0, UintText(0),
                             size, textColor, 0, BOTTOM) >>
           w1 == [kind |-> "HeaderBar", w |-> ScreenW, h |-> BoxH,
                  color |-> color, labels |-> ls]
       IN /\ wgt' = w1
          /\ ops' = << FillRect(0, 0, ScreenW, BoxH, color), DrawLogo,
                       Printed(DateLabel, ls[DateLabel]),
                       Printed(TimeLabel, ls[TimeLabel]) >>
          /\ bg' = color
          /\ shown' = ShownAfter(<<NoRect, NoRect>>, w1, {1, 2})
          /\ wcall' = [op |-> "HeaderBar", color |-> color]
  /\ UNCHANGED <<bmpVars, lblVars>>

\* void HeaderBar::draw(void)
HeaderDraw ==
  /\ wgt.kind = "HeaderBar"
  /\ ops' = << FillRect(0, 0, ScreenW, wgt.h, wgt.color), DrawLogo,
               Printed(TimeLabel, wgt.labels[TimeLabel]),
               Printed(DateLabel, wgt.labels[DateLabel]) >>
  /\ bg' = wgt.color
  /\ shown' = ShownAfter(shown, wgt, {1, 2})
  /\ wcall' = [op |-> "draw"]
  /\ UNCHANGED wgt
  /\ UNCHANGED <<bmpVars, lblVars>>

\* void HeaderBar::updateTime(DateTime time)
UpdateTime ==
  /\ wgt.kind = "HeaderBar"
  /\ \E t \in Times :
       Refresh("updateTime", TimeLabel, t, dig2(hour(t)) \o <<Colon>> \o dig2(minute(t)))

\* void HeaderBar::updateDate(DateTime date)
UpdateDate ==
  /\ wgt.kind = "HeaderBar"
  /\ \E t \in Times :
       Refresh("updateDate", DateLabel, t,
               dig2(day(t)) \o <<Dot>> \o dig2(month(t)) \o <<Dot>> \o Decimal(year(t)))

\* CalibrationWarning::CalibrationWarning(x, y, w, h, color, textColor)
NewCalibrationWarning ==
  /\ wgt = NoWidget
  /\ \E color \in Colors, textColor \in TextColors :
       LET ts == 2
           ls == << NewLabel(ScreenW, ScreenH, Letters(3), ts, textColor, 3, TOP + LEFT),
                    NewLabel(ScreenW, ScreenH, [i \in 1 .. 4 |-> Space], ts,
                             textColor, 0, TOP + LEFT),
                    NewLabel(ScreenW, ScreenH, [i \in 1 .. 5 |-> Space], ts,
                             textColor, 0, TOP + LEFT) >>
           w1 == [kind |-> "CalibrationWarning", x |-> BoxX, y |-> BoxY,
                  w |-> BoxW, h |-> BoxH, color |-> color,
                  textColor |-> textColor, textsize |-> ts, labels |-> ls,
                  calibrationTime |-> 0]
       IN /\ wgt' = w1
          /\ ops' = << Printed(1, ls[1]), Printed(2, ls[2]), Printed(3, ls[3]) >>
          /\ shown' = ShownAfter(<<NoRect, NoRect, NoRect>>, w1, {1, 2, 3})
          /\ wcall' = [op |-> "CalibrationWarning", color |-> color]
  /\ UNCHANGED bg
  /\ UNCHANGED <<bmpVars, lblVars>>

\* void CalibrationWarning::print(void)
WarningPrint ==
  /\ wgt.kind = "CalibrationWarning"
  /\ LET ts == wgt.textsize
         x0 == ToInt16(wgt.x + 10)
         \* caption at size ts+1, an empty line, 5 lines, an empty line, 2 lines,
         \* an empty line
         y1 == ToInt16(wgt.y + 10 + (ts + 1) * CHAR_H + 10 * ts * CHAR_H)
         \* "Remaining time: "
         cx1 == ToInt16(x0 + 16 * ts * CHAR_W)
         cd == Reposition(wgt.labels[CountdownLabel], cx1, y1, TOP + LEFT)
         xr == CursorAfter(PrintRuns(cd))
         y2 == ToInt16(y1 + ts * CHAR_H)
         \* "Current "
         cx2 == ToInt16(x0 + 8 * ts * CHAR_W)
         nm == Reposition(wgt.labels[Co2NameLabel], cx2, y2, TOP + LEFT)
         vl == Reposition(wgt.labels[Co2ValueLabel], xr, y2, RIGHT)
         w1 == [wgt EXCEPT !.labels = <<nm, vl, cd>>]
     IN /\ wgt' = w1
        /\ ops' = << FillRoundRect(wgt.x, wgt.y, wgt.w, wgt.h, wgt.color),
                     StaticText, Printed(CountdownLabel, cd), StaticText,
                     Printed(Co2NameLabel, nm), StaticText >>
        /\ shown' = ShownAfter(shown, w1, {CountdownLabel, Co2NameLabel})
  /\ bg' = wgt.color
  /\ wcall' = [op |-> "print"]
  /\ UNCHANGED <<bmpVars, lblVars>>

\* void CalibrationWarning::setCalibrationTime(DateTime time)
SetCalibrationTime ==
  /\ wgt.kind = "CalibrationWarning"
  /\ \E t \in Times :
       /\ wgt' = [wgt EXCEPT !.calibrationTime = t]
       /\ wcall' = [op |-> "setCalibrationTime", val |-> t]
  /\ ops' = <<>>
  /\ UNCHANGED <<bg, shown>>
  /\ UNCHANGED <<bmpVars, lblVars>>

\* the text of the countdown: TimeSpan remaining = _calibrationTime - time
CountdownText(target, now) ==
  LET remaining == target - now
  IN dig2(minutes(remaining)) \o <<Colon>> \o dig2(seconds(remaining))

\* void CalibrationWarning::refreshCountdown(DateTime time)
RefreshCountdown ==
  /\ wgt.kind = "CalibrationWarning"
  /\ \E t \in Times :
       Refresh("refreshCountdown", CountdownLabel, t,
               CountdownText(wgt.calibrationTime, t))

\* void CalibrationWarning::refreshCO2(uint16_t val)
RefreshCO2 ==
  /\ wgt.kind = "CalibrationWarning"
  /\ \E val \in Uints : Refresh("refreshCO2", Co2ValueLabel, val, Decimal(val))

WgtNext ==
  \/ NewValueBar \/ BarDraw \/ WidgetErase \/ ChangeColor
  \/ RefreshValue \/ RefreshValueFloat
  \/ NewHeaderBar \/ HeaderDraw \/ UpdateTime \/ UpdateDate
  \/ NewCalibrationWarning \/ WarningPrint \/ SetCalibrationTime
  \/ RefreshCountdown \/ RefreshCO2
Spec == Init /\ [][BmpNext]_vars

LabelSpec == Init /\ [][LblNext]_vars

NumSpec == Init /\ [][NumNext]_vars

WidgetSpec == Init /\ [][WgtNext]_vars


(***************************************************************************)
(* Properties of bmpReader::draw, stated on the inputs (the header fields  *)
(* of the file and the requested origin) and on what reached the display.  *)
(***************************************************************************)
\* the allow-list: signature "BM", one plane, 24 bits per pixel, uncompressed
AllowListed(f) == f.sig = BM /\ f.planes = 1 /\ f.depth = 24 /\ f.comp = 0

\* the least multiple of 4 that holds bw pixels of 3 bytes
PaddedRow(bw) == 3 * bw + ((4 - ((3 * bw) % 4)) % 4)

\* a 24-bit uncompressed BMP of at least one pixel that holds all its rows
WellFormed(f) ==
  /\ AllowListed(f)
  /\ f.width > 0
  /\ f.height # 0
  /\ f.size = f.off + PaddedRow(f.width) * Abs(f.height)

\* the image lies entirely on the display
FitsOn(f) ==
  /\ x >= 0 /\ y >= 0
  /\ x + f.width <= DispW
  /\ y + Abs(f.height) <= DispH

\* the origin is a pixel of the display
ValidOrigin == x >= 0 /\ x < DispW /\ y >= 0 /\ y < DispH

\* the color of the blue, green, red bytes at file offset o
SourceColor(f, o) == color565(FileByte(f, o + 2), FileByte(f, o + 1), FileByte(f, o))

\* the file offset of the row shown as output row r
SrcRowOffset(f, r) ==
  IF f.height < 0 THEN f.off + r * PaddedRow(f.width)
                  ELSE f.off + (f.height - 1 - r) * PaddedRow(f.width)

\* the pushes so far are the pixels of the image in row-major order, each the
\* conversion of its own source bytes, and at return there are W*|H| of them
RoundTrip(f) ==
  /\ lastPush.any =>
       /\ lastPush.row < Abs(f.height) /\ lastPush.col < f.width
       /\ trace.pushes = lastPush.row * f.width + lastPush.col + 1
       /\ lastPush.color = SourceColor(f, SrcRowOffset(f, lastPush.row) + 3 * lastPush.col)
  /\ pc = "done" => trace.pushes = f.width * Abs(f.height)

\* C1: a well-formed bottom-to-top BMP (H > 0) that fits on the display is
\* pushed as exactly W*H pixels, the pixel of output row r, column c being the
\* conversion of the bytes at imageOffset + (H-1-r)*rowSize + 3*c.
C1_FlippedRoundTrip ==
  (WellFormed(file) /\ file.height > 0 /\ FitsOn(file)) => RoundTrip(file)

C1_Witness ==
  /\ pc = "done" /\ WellFormed(file) /\ FitsOn(file)
  /\ file.height = MaxH /\ file.width = 2 * BUFFPIXEL
  /\ trace.pushes = 2 * BUFFPIXEL * MaxH

\* C2: a well-formed top-to-bottom BMP (declared height < 0) is pushed as
\* exactly W*|H| pixels, the pixel of output row r, column c being the
\* conversion of the bytes at imageOffset + r*rowSize + 3*c, for every width.
C2_TopDownRoundTrip ==
  (WellFormed(file) /\ file.height < 0 /\ FitsOn(file)) => RoundTrip(file)

\* C3: no storage read and no seek is issued while a display transaction is
\* open, the window and every pixel are sent inside one, and each seek and
\* each refill has endWrite before it and startWrite after it.
C3_BusDiscipline ==
  /\ ~trace.clash
  /\ ~trace.outside
  /\ pc \in {"seek", "seek_start", "refill", "refill_start", "header"} => ~writing
  /\ pc \in {"row", "col", "pixel", "seek_end"} => writing

C3_Witness ==
  pc = "done" /\ trace.seeks >= 2 /\ trace.refills >= 3 /\ trace.pushes > BUFFPIXEL

\* C4: a file that was opened is closed exactly once before draw returns,
\* whatever the header and the origin; nothing is closed that was not opened.
C4_ClosedOnce ==
  /\ trace.opens <= 1
  /\ trace.closes <= trace.opens
  /\ fOpen <=> (trace.opens = trace.closes + 1)
  /\ pc = "done" => trace.closes = trace.opens

\* an accepted header whose rectangle is empty
C4_Witness ==
  /\ pc = "done" /\ goodBmp /\ window.set /\ window.w * window.h = 0
  /\ trace.opens = 1 /\ trace.closes = 1 /\ ~fOpen

\* C5: display transactions are never nested and none is open at return,
\* where startWrite and endWrite have been called equally often.
C5_TransactionsPaired ==
  /\ ~trace.nested
  /\ writing <=> (trace.starts = trace.ends + 1)
  /\ ~writing <=> (trace.starts = trace.ends)
  /\ pc = "done" => (~writing /\ trace.starts = trace.ends)

C5_Witness == pc = "done" /\ trace.starts >= 4 /\ trace.starts = trace.ends

\* C6: a header off the allow-list (signature, planes, depth or compression)
\* gives no startWrite, no setAddrWindow, no push, and a closed file.
C6_RejectedHeaderDrawsNothing ==
  (openOk /\ ~AllowListed(file)) =>
    /\ trace.starts = 0 /\ trace.windows = 0 /\ trace.pushes = 0
    /\ pc = "done" => (~fOpen /\ trace.closes = 1)

\* C7: an origin that is no pixel of the display, negative coordinates
\* included, gives no display operation at all.
C7_OutsideOriginDrawsNothing ==
  (pc # "idle" /\ ~ValidOrigin) =>
    (trace.starts = 0 /\ trace.windows = 0 /\ trace.pushes = 0)

\* C8: from a valid origin the address window is the image cut to the
\* display, min(W, displayWidth - x) by min(|H|, displayHeight - y), every
\* output row gets exactly the window's width in pushes, and the pushes at
\* return are the window's area.
C8_Clipping ==
  (AllowListed(file) /\ file.width > 0 /\ file.height # 0 /\ ValidOrigin) =>
    /\ window.set =>
         /\ window.x = x /\ window.y = y
         /\ window.w = Min(file.width, DispW - x)
         /\ window.h = Min(Abs(file.height), DispH - y)
    /\ lastPush.any =>
         /\ window.set
         /\ lastPush.col < window.w /\ lastPush.row < window.h
         /\ trace.pushes = lastPush.row * window.w + lastPush.col + 1
    /\ pc = "done" => (window.set /\ trace.pushes = window.w * window.h)

C8_Witness ==
  /\ pc = "done" /\ AllowListed(file) /\ ValidOrigin
  /\ window.set /\ window.w < file.width /\ window.h < Abs(file.height)
  /\ trace.pushes = window.w * window.h /\ trace.pushes > 1

\* the draw was cut to fewer columns than the image has
Clipped ==
  AllowListed(file) /\ ValidOrigin /\ window.set /\ window.w < file.width

\* C9 as stated: clipped to w < W columns, no byte is read from the file
\* beyond the first 3*w bytes of the output row's source data.
C9_NoReadPastTruncatedRow ==
  (Clipped /\ rowRead.last > 0) =>
    rowRead.last <= SrcRowOffset(file, rowRead.row) + 3 * window.w

\* C9, amended: clipped to w < W columns, the bytes read for an output row
\* end no later than the 3*w bytes of its source data rounded up to whole
\* buffers of 3*BUFFPIXEL bytes.
C9_ReadsWholeBuffers ==
  (Clipped /\ rowRead.last > 0) =>
    rowRead.last <= SrcRowOffset(file, rowRead.row)
                      + BufSize * ((window.w + BUFFPIXEL - 1) \div BUFFPIXEL)

C9_Witness ==
  /\ Clipped /\ pc = "done" /\ trace.refills > 0
  /\ rowRead.last > SrcRowOffset(file, rowRead.row) + 3 * window.w

(***************************************************************************)
(* Properties of Label                                                     *)
(***************************************************************************)
\* C10: for a Label without subscript, of n >= 1 characters and size s >= 1,
\* erase fills the rectangle of width n*s*CHAR_W and height s*CHAR_H whose
\* upper-left corner is the stored anchor (_x, _y).
C10_EraseRectPlain ==
  (lbl # NoLabel /\ rect.set /\ lbl.subscript = 0 /\ Len(lbl.name) >= 1 /\ lbl.size >= 1) =>
    /\ rect.w = Len(lbl.name) * lbl.size * CHAR_W
    /\ rect.h = lbl.size * CHAR_H
    /\ rect.x = ToInt16(lbl.x)
    /\ rect.y = ToInt16(lbl.y)

C10_Witness ==
  /\ lbl # NoLabel /\ rect.set /\ runs # <<>>
  /\ lbl.subscript = 0 /\ Len(lbl.name) = MaxLen /\ lbl.size = MaxSize
  /\ lbl.alignment = RIGHT + BOTTOM


\* C11 as stated: for a Label with the subscript on one of its n characters
\* and size s >= 1, erase fills the rectangle of height
\* s*CHAR_H/2 + (s-1)*CHAR_H and width n*s*CHAR_W - CHAR_W at the stored
\* anchor (_x, _y).
Subscripted ==
  /\ lbl # NoLabel /\ rect.set /\ lbl.size >= 1
  /\ lbl.subscript >= 1 /\ lbl.subscript <= Len(lbl.name)

C13_ChangeNameShift ==
  call.op = "changeName" =>
    LET L1 == call.found.len
        L2 == Len(lbl.name)
        had == call.found.subscript # 0
        has == lbl.subscript # 0
    IN /\ (lbl.alignment % 2 = RIGHT /\ had = has) =>
            lbl.x = ToUint16(call.found.x - (L2 - L1) * lbl.size * CHAR_W)
       /\ (lbl.alignment % 2 = RIGHT /\ L1 = L2 /\ ~had /\ has) =>
            lbl.x = ToUint16(call.found.x + CHAR_W)
       /\ (lbl.alignment % 2 = RIGHT /\ L1 = L2 /\ had /\ ~has) =>
            lbl.x = ToUint16(call.found.x - CHAR_W)
       /\ lbl.alignment % 2 # RIGHT => lbl.x = call.found.x

C13_Witness ==
  /\ call.op = "changeName" /\ lbl.alignment = RIGHT
  /\ call.found.len = 1 /\ Len(lbl.name) = MaxLen
  /\ call.found.subscript = 0 /\ lbl.subscript = 0 /\ lbl.size = MaxSize
  /\ lbl.x = MaxX - MaxLen * MaxSize * CHAR_W

\* C19: changePosition(x, y, alignment) on a Label of content T, size s and
\* subscript k leaves the anchor and the alignment that the construction
\* of a Label from (x, y, T, s, color, k, alignment) stores, and the same
\* call made again leaves the same anchor.
C19_ChangePositionAsConstruct ==
  call.op = "changePosition" =>
    LET built == NewLabel(call.x, call.y, lbl.name, lbl.size, lbl.color,
                          lbl.subscript, call.alignment)
        again == Reposition(lbl, call.x, call.y, call.alignment)
    IN /\ lbl.x = built.x /\ lbl.y = built.y
       /\ lbl.alignment = built.alignment
       /\ again.x = lbl.x /\ again.y = lbl.y

C19_Witness ==
  /\ call.op = "changePosition" /\ call.alignment = RIGHT + BOTTOM
  /\ call.x = MaxX /\ lbl.subscript = 2 /\ Len(lbl.name) = MaxLen
  /\ lbl.size = MaxSize
  /\ lbl.x = MaxX - MaxLen * MaxSize * CHAR_W - CHAR_W
  /\ lbl.y = MaxX - MaxSize * CHAR_H

(***************************************************************************)
(* Properties of numeric content                                           *)
(***************************************************************************)
\* the value a string of decimal digits denotes
RECURSIVE ValueOf(_)
ValueOf(str) ==
  IF Len(str) = 0 THEN 0
  ELSE 10 * ValueOf(SubSeq(str, 1, Len(str) - 1)) + (str[Len(str)] - Zero)

\* str is the decimal representation of v: digits only, no leading zero
IsDecimalOf(str, v) ==
  /\ Len(str) >= 1
  /\ \A i \in 1 .. Len(str) : str[i] >= Zero /\ str[i] <= Zero + 9
  /\ Len(str) > 1 => str[1] # Zero
  /\ ValueOf(str) = v

\* C17: a Label constructed from the unsigned value 0 has the content " ",
\* one constructed from 12 the content "12", and one constructed from any
\* v > 0 the decimal representation of v.
C17_UintContent ==
  call.op = "Label(uint16_t)" =>
    /\ call.val = 0 => lbl.name = <<Space>>
    /\ call.val = 12 => lbl.name = <<Zero + 1, Zero + 2>>
    /\ call.val > 0 => IsDecimalOf(lbl.name, call.val)

C17_Witness ==
  /\ call.op = "Label(uint16_t)" /\ call.val = 0 /\ lbl.name = <<Space>>
  /\ lbl.alignment = RIGHT /\ lbl.size = MaxSize /\ lbl.x = MaxX - MaxSize * CHAR_W

(***************************************************************************)
(* Properties of the widgets                                               *)
(***************************************************************************)
RefreshCalls ==
  {"refreshValue", "refreshValue(float)", "updateTime", "updateDate",
   "refreshCountdown", "refreshCO2"}

\* the rectangle r and the painted cells f are the same area
SameArea(r, f) ==
  r.set /\ f.set /\ r.x = f.x /\ r.y = f.y /\ r.w = f.w /\ r.h = f.h

\* C14: a refresh of a value makes exactly two display operations on its
\* Label: the erase, in the widget's background color, of what the Label
\* held before the call, then the print of the new content; in a ValueBar
\* and a HeaderBar the color is the one of the last background fill and the
\* erased rectangle is the area painted by the Label's previous print.
C14_RefreshErasesPrevious ==
  wcall.op \in RefreshCalls =>
    /\ Len(ops) = 2
    /\ ops[1].op = "erase" /\ ops[1].label = wcall.label
    /\ ops[2].op = "print" /\ ops[2].label = wcall.label
    /\ ops[1].rect.color = wgt.color /\ wgt.color = wcall.color
    /\ ops[2].runs = PrintRuns(wgt.labels[wcall.label])
    /\ wgt.kind \in {"ValueBar", "HeaderBar"} =>
         /\ ops[1].rect.color = bg
         /\ SameArea(ops[1].rect, wcall.was)

C14_Witness ==
  /\ wcall.op = "refreshValue" /\ wcall.val = MaxVal /\ wgt.color = 0
  /\ wcall.was.set /\ wcall.was.w = 2 * 4 * CHAR_W
  /\ ops[1].rect.w = 2 * 4 * CHAR_W /\ ops[1].rect.color = 0
  /\ Len(ops[2].runs[1].text) = 3

\* the Labels that the update operations of a widget change
Mutable(kind) ==
  IF kind = "ValueBar" THEN {ValueLabel}
  ELSE IF kind = "HeaderBar" THEN {DateLabel, TimeLabel}
  ELSE {Co2ValueLabel, CountdownLabel}

IsFill(o) == o.op \in {"fillRect", "fillRoundRect"}

\* C15 as stated: draw() of a ValueBar or HeaderBar fills the background
\* first and prints no Label that an update operation changes.
C15_DrawPrintsNoMutableLabel ==
  wcall.op = "draw" =>
    /\ IsFill(ops[1])
    /\ \A k \in 1 .. Len(ops) :
         ops[k].op = "print" => ops[k].label \notin Mutable(wgt.kind)

\* C15, amended: draw() fills the background in the stored color (and, in a
\* HeaderBar, draws the logo) before it prints any Label; ValueBar::draw
\* prints the name and the unit and never the value, HeaderBar::draw prints
\* the time and then the date, the two Labels updateTime and updateDate
\* change.
C15_DrawBackgroundThenLabels ==
  wcall.op = "draw" =>
    /\ IsFill(ops[1]) /\ ops[1].color = wgt.color
    /\ \A j, k \in 1 .. Len(ops) :
         (ops[j].op = "print" /\ ops[k].op # "print") => k < j
    /\ wgt.kind = "ValueBar" =>
         /\ {ops[k].label : k \in {j \in 1 .. Len(ops) : ops[j].op = "print"}}
              = {1, 2, 3} \ {ValueLabel}
    /\ wgt.kind = "HeaderBar" =>
         /\ Len(ops) = 4 /\ ops[2] = DrawLogo
         /\ ops[3] = Printed(TimeLabel, wgt.labels[TimeLabel])
         /\ ops[4] = Printed(DateLabel, wgt.labels[DateLabel])

C15_Witness ==
  /\ wcall.op = "draw" /\ wgt.kind = "HeaderBar"
  /\ Len(wgt.labels[TimeLabel].name) = 5
  /\ Len(ops) = 4 /\ ops[3].op = "print" /\ ops[3].label = TimeLabel
  /\ Len(ops[3].runs[1].text) = 5

\* C16: changeColor(c) with c the stored color makes no display operation
\* and changes nothing; with another c it stores c, fills the background
\* in c and prints the name and the unit; the stored color of a ValueBar is
\* always the color of its last background fill.
C16_ChangeColor ==
  /\ wcall.op = "changeColor" =>
       /\ wcall.color = wcall.before.color =>
            ops = <<>> /\ wgt = wcall.before /\ bg = wcall.bgBefore
       /\ wcall.color # wcall.before.color =>
            /\ wgt = [wcall.before EXCEPT !.color = wcall.color]
            /\ ops = << FillRoundRect(wgt.x, wgt.y, wgt.w, wgt.h, wcall.color),
                        Printed(1, wgt.labels[1]), Printed(3, wgt.labels[3]) >>
  /\ wgt.kind = "ValueBar" => bg = wgt.color

C16_Witness ==
  /\ wcall.op = "changeColor" /\ wcall.color = wcall.before.color
  /\ ops = <<>> /\ wgt.color = 0 /\ bg = 0
  /\ Len(wgt.labels[ValueLabel].name) = 3

\* C18: after refreshValue(0) on a ValueBar and after refreshCO2(0) on a
\* CalibrationWarning, both of which hand 0 to changeName, the content of
\* the value Label is the single space " ".
C18_ZeroIsBlank ==
  (wcall.op \in {"refreshValue", "refreshCO2"} /\ wcall.val = 0) =>
    wgt.labels[wcall.label].name = <<Space>>

\* the number two decimal digits denote, -1 if they are not two digits
TwoDigits(c, i) ==
  IF \A k \in {i, i + 1} : c[k] >= Zero /\ c[k] <= Zero + 9
    THEN 10 * (c[i] - Zero) + (c[i + 1] - Zero)
    ELSE -1

Dig2IsTwoDigits ==
  \A n \in 0 .. 99 : Len(dig2(n)) = 2 /\ TwoDigits(dig2(n), 1) = n

C21_OpenFailureDoesNothing ==
  (pc = "done" /\ ~OutOfBounds(x, y) /\ ~openOk) =>
    /\ trace = NoTrace
    /\ ~writing /\ window = NoWindow /\ lastPush = NoPush
    /\ ~fOpen /\ fpos = 0 /\ rowRead = NoRead
    /\ sdbuffer = [i \in 1 .. BufSize |-> Uninit]

C21_Witness ==
  /\ pc = "done" /\ ~OutOfBounds(x, y) /\ ~openOk
  /\ x = ClipX /\ trace.opens = 0 /\ trace.closes = 0

\* C22: in every Label state of size s >= 1 with the subscript index 0 or
\* on one of the n characters, the rectangle filled by erase is the bounding
\* box of the character cells print paints in that state (both empty when
\* nothing is painted).
C22_EraseIsPrintBox ==
  (lbl # NoLabel /\ rect.set /\ runs # <<>> /\ lbl.size >= 1
     /\ lbl.subscript <= Len(lbl.name)) =>
    LET box == Footprint(runs)
    IN IF box.set
         THEN SameArea(rect, box)
         ELSE rect.w = 0 \/ rect.h = 0

\* the right edge of the footprint of a Label of n characters at x
RightEdge(x0, n, size, subscript) ==
  ToUint16(x0 + n * size * CHAR_W - (IF subscript # 0 THEN CHAR_W ELSE 0))

\* C23: changeName on a right-aligned Label leaves the right edge of the
\* footprint, x + len*size*CHAR_W less CHAR_W when subscripted, where it
\* was, whatever the lengths and the subscripts before and after.
C23_RightEdgeKept ==
  (call.op = "changeName" /\ lbl.alignment % 2 = RIGHT) =>
    RightEdge(lbl.x, Len(lbl.name), lbl.size, lbl.subscript)
      = RightEdge(call.found.x, call.found.len, lbl.size, call.found.subscript)

C23_Witness ==
  /\ call.op = "changeName" /\ lbl.alignment = RIGHT /\ lbl.size = MaxSize
  /\ call.found.subscript = 0 /\ lbl.subscript = 2
  /\ call.found.len = 1 /\ Len(lbl.name) = MaxLen
  /\ RightEdge(lbl.x, Len(lbl.name), lbl.size, lbl.subscript) = MaxX

\* C24: a Label of size s >= 1 constructed right-aligned at X with the
\* subscript on one of its n characters stores the x with
\* x + (n*size*CHAR_W - CHAR_W) = X: the right edge of the subscripted
\* footprint is at X.
C24_RightAlignedSubscriptConstruct ==
  (call.op = "Label" /\ call.alignment % 2 = RIGHT /\ lbl.size >= 1
     /\ call.subscript >= 1 /\ call.subscript <= Len(call.name)) =>
    ToUint16(lbl.x + Len(call.name) * lbl.size * CHAR_W - CHAR_W) = ToUint16(call.x)

\* C25: print() and erase() leave anchor, content, size, color, subscript
\* and alignment as they found them, so what a print wrote and what an
\* erase filled are still the runs and the rectangle of the Label as it is.
C25_PrintEraseFrame ==
  /\ call.op \in {"print", "erase"} => lbl = call.before
  /\ (lbl # NoLabel /\ runs # <<>>) => runs = PrintRuns(lbl)
  /\ (lbl # NoLabel /\ rect.set) => rect = EraseRect(lbl, rect.color)

C25_Witness ==
  /\ call.op = "print" /\ rect.set /\ runs # <<>>
  /\ lbl.alignment = RIGHT + BOTTOM /\ lbl.subscript = 2
  /\ Len(lbl.name) = MaxLen /\ lbl.size = MaxSize
  /\ lbl = call.before

\* C26: print of a Label of size s >= 1 with the subscript on character k
\* of n makes three writes in order: the first k-1 characters, size s asked,
\* at height _y; character k alone, size s-1 asked, s*CHAR_H/2 lower; the
\* last n-k characters, size s asked, at height _y again; together they
\* are the content.  Without subscript it makes one write of the content,
\* size s asked.
C26_PrintRuns ==
  (lbl # NoLabel /\ runs # <<>> /\ lbl.size >= 1 /\ lbl.subscript <= Len(lbl.name)) =>
    LET k == lbl.subscript
        n == Len(lbl.name)
        s == lbl.size
        y0 == ToInt16(lbl.y)
    IN IF k = 0
         THEN /\ Len(runs) = 1
              /\ runs[1].text = lbl.name /\ runs[1].asked = s
              /\ runs[1].x = ToInt16(lbl.x) /\ runs[1].y = y0
         ELSE /\ Len(runs) = 3
              /\ runs[1].text = SubSeq(lbl.name, 1, k - 1)
              /\ runs[1].asked = s /\ runs[1].y = y0
              /\ runs[1].x = ToInt16(lbl.x)
              /\ runs[2].text = <<lbl.name[k]>>
              /\ runs[2].asked = s - 1
              /\ runs[2].y = ToInt16(y0 + (s * CHAR_H) \div 2)
              /\ runs[3].text = SubSeq(lbl.name, k + 1, n)
              /\ runs[3].asked = s /\ runs[3].y = y0
              /\ runs[1].x <= runs[2].x /\ runs[2].x < runs[3].x
              /\ runs[1].text \o runs[2].text \o runs[3].text = lbl.name

C26_Witness ==
  /\ lbl # NoLabel /\ Len(runs) = 3 /\ lbl.size = MaxSize
  /\ lbl.subscript = 2 /\ Len(lbl.name) = MaxLen
  /\ Len(runs[1].text) = 1 /\ Len(runs[3].text) = MaxLen - 2
  /\ runs[2].y = runs[1].y + (MaxSize * CHAR_H) \div 2

\* the row loop is past the test for a seek of the current output row
SeekDecided == pc \in {"seek_start", "col", "refill", "refill_start", "pixel"}

\* the last pixel consumed belongs to the output row being streamed
InRow == lastPush.any /\ pc # "row" /\ lastPush.row = rowRead.row

\* C27: for a complete 24-bit BMP drawn from a valid origin, an output row
\* makes a seek exactly when the file position it starts at differs from
\* its source offset; after a seek the buffer is refilled before a pixel is
\* consumed; and the three bytes of every pixel consumed are the file bytes
\* at row offset + 3*column.
C27_SeekAndSourceBytes ==
  (WellFormed(file) /\ ValidOrigin) =>
    /\ SeekDecided => (rowRead.sought <=> rowRead.at # pos)
    /\ (InRow /\ rowRead.sought) => rowRead.fresh
    /\ InRow =>
         /\ lastPush.b = FileByte(file, pos + 3 * lastPush.col)
         /\ lastPush.g = FileByte(file, pos + 3 * lastPush.col + 1)
         /\ lastPush.r = FileByte(file, pos + 3 * lastPush.col + 2)

\* C28: the buffer read index is always a multiple of 3 and at most the
\* buffer capacity, and the three bytes of every pixel are read below the
\* capacity: at the capacity the buffer is refilled before it is read.
C28_BufferIndex ==
  /\ buffidx % 3 = 0 /\ buffidx >= 0 /\ buffidx <= BufSize
  /\ pc = "pixel" => buffidx = 0
  /\ lastPush.any =>
       /\ lastPush.idx % 3 = 0 /\ lastPush.idx >= 0
       /\ lastPush.idx + 2 < BufSize

C28_Witness ==
  /\ lastPush.any /\ lastPush.idx = BufSize - 3 /\ buffidx = BufSize
  /\ pc = "col" /\ col < w /\ trace.refills >= 2
====
